---------------------------- MODULE Spec2Model ----------------------------
(***************************************************************************)
(* DOMPropertyOperations (src/renderers/dom/shared): the attribute-name    *)
(* validator with its two caches, the should-ignore predicate and the      *)
(* markup / set / delete operations, run against one target node.          *)
(*                                                                         *)
(* JavaScript strings are sequences of one-character strings, so that the  *)
(* name grammar, string concatenation and escaping are computed and not    *)
(* looked up.  JavaScript values are tagged records.                       *)
(***************************************************************************)
EXTENDS Integers, Sequences, FiniteSets

VARIABLES
    nodeName,                     \* node.nodeName of the target node
    props,                        \* node[propName], by property name
    attrs,                        \* the node's attributes
    validatedAttributeNameCache,  \* own keys of the object of line 23
    illegalAttributeNameCache,    \* own keys of the object of line 22
    warnings,                     \* names reported by warning(), in order
    firstVerdict,                 \* outcome of the first validator run, by name
    last,                         \* the latest call: inputs, outcome, node operations
    ncalls,                       \* number of calls made so far
    scope                         \* the names the caller of this run passes

vars == <<nodeName, props, attrs, validatedAttributeNameCache,
          illegalAttributeNameCache, warnings, firstVerdict, last, ncalls, scope>>

---------------------------------------------------------------------------
(* Bounds.                                                                 *)

MaxCalls == 2
MaxNum == 1

---------------------------------------------------------------------------
(* JavaScript values and the coercions the code applies to them.           *)

Undefined == [t |-> "undefined", b |-> FALSE, n |-> 0, s |-> <<>>]
Null == [t |-> "null", b |-> FALSE, n |-> 0, s |-> <<>>]
NaN == [t |-> "number", b |-> TRUE, n |-> 0, s |-> <<>>]
Bool(x) == [t |-> "boolean", b |-> x, n |-> 0, s |-> <<>>]
Num(x) == [t |-> "number", b |-> FALSE, n |-> x, s |-> <<>>]
Str(x) == [t |-> "string", b |-> FALSE, n |-> 0, s |-> x]

IsNaNValue(v) == v.t = "number" /\ v.b

Digits == <<"0", "1", "2", "3", "4", "5", "6", "7", "8", "9">>

RECURSIVE NatToString(_)
NatToString(n) ==
    IF n < 10 THEN <<Digits[n + 1]>>
    ELSE NatToString(n \div 10) \o <<Digits[(n % 10) + 1]>>

\* '' + value
ToString(v) ==
    CASE v.t = "undefined" -> <<"u", "n", "d", "e", "f", "i", "n", "e", "d">>
      [] v.t = "null" -> <<"n", "u", "l", "l">>
      [] v.t = "boolean" -> IF v.b THEN <<"t", "r", "u", "e">>
                                   ELSE <<"f", "a", "l", "s", "e">>
      [] v.t = "number" -> IF v.b THEN <<"N", "a", "N">>
                           ELSE IF v.n < 0 THEN <<"-">> \o NatToString(-v.n)
                           ELSE NatToString(v.n)
      [] v.t = "string" -> v.s

DigitValue(c) == CHOOSE d \in 0..9 : Digits[d + 1] = c

IsDigit(c) == \E d \in 1..10 : Digits[d] = c

RECURSIVE DigitsToNat(_)
DigitsToNat(s) ==
    IF Len(s) = 0 THEN 0
    ELSE 10 * DigitsToNat(SubSeq(s, 1, Len(s) - 1)) + DigitValue(s[Len(s)])

\* Number(string): the empty string is 0, a decimal integer is its value, anything
\* else NaN (the strings used here hold no white space, sign, point or exponent).
StringToNumber(s) ==
    IF Len(s) = 0 THEN Num(0)
    ELSE IF \A i \in 1..Len(s) : IsDigit(s[i]) THEN Num(DigitsToNat(s))
    ELSE NaN

\* ToNumber(value)
ToNumber(v) ==
    CASE v.t = "undefined" -> NaN
      [] v.t = "null" -> Num(0)
      [] v.t = "boolean" -> IF v.b THEN Num(1) ELSE Num(0)
      [] v.t = "number" -> v
      [] v.t = "string" -> StringToNumber(v.s)

\* !value
Falsy(v) ==
    \/ v.t \in {"undefined", "null"}
    \/ v.t = "boolean" /\ ~v.b
    \/ v.t = "number" /\ (v.b \/ v.n = 0)
    \/ v.t = "string" /\ Len(v.s) = 0

\* value == null
LooseEqualsNull(v) == v.t \in {"undefined", "null"}

\* isNaN(value)
isNaN(v) == IsNaNValue(ToNumber(v))

\* value < 1
LessThanOne(v) == ~IsNaNValue(ToNumber(v)) /\ ToNumber(v).n < 1

---------------------------------------------------------------------------
(* Strings used as names and values.                                       *)

S_disabled == <<"d", "i", "s", "a", "b", "l", "e", "d">>
S_checked == <<"c", "h", "e", "c", "k", "e", "d">>
S_value == <<"v", "a", "l", "u", "e">>
S_download == <<"d", "o", "w", "n", "l", "o", "a", "d">>
S_size == <<"s", "i", "z", "e">>
S_rowSpan == <<"r", "o", "w", "S", "p", "a", "n">>
S_rowspan == <<"r", "o", "w", "s", "p", "a", "n">>
S_xlinkHref == <<"x", "l", "i", "n", "k", "H", "r", "e", "f">>
S_xlink_href == <<"x", "l", "i", "n", "k", ":", "h", "r", "e", "f">>
S_style == <<"s", "t", "y", "l", "e">>
S_data_x == <<"d", "a", "t", "a", "-", "x">>
S_1bad == <<"1", "b", "a", "d">>
S_1_b == <<"1", "-", "b">>
S_hasOwnProperty == <<"h", "a", "s", "O", "w", "n", "P", "r", "o", "p", "e", "r", "t", "y">>
S___proto__ == <<"_", "_", "p", "r", "o", "t", "o", "_", "_">>
S_custom == <<"c", "u", "s", "t", "o", "m">>
S_quot == <<"\"">>
XLINK_NS == "http://www.w3.org/1999/xlink"

---------------------------------------------------------------------------
(* The registry (DOMProperty) and the other collaborators.                 *)

PropertyInfo(attributeName, attributeNamespace, propertyName, flags, mutationMethod) ==
    [attributeName |-> attributeName,
     attributeNamespace |-> attributeNamespace,
     propertyName |-> propertyName,
     hasBooleanValue |-> "hasBooleanValue" \in flags,
     hasNumericValue |-> "hasNumericValue" \in flags,
     hasPositiveNumericValue |-> "hasPositiveNumericValue" \in flags,
     hasOverloadedBooleanValue |-> "hasOverloadedBooleanValue" \in flags,
     hasSideEffects |-> "hasSideEffects" \in flags,
     mustUseAttribute |-> "mustUseAttribute" \in flags,
     mutationMethod |-> mutationMethod]

\* DOMProperty.properties: the descriptors, by name.
RegisteredNames ==
    {S_disabled, S_checked, S_value, S_download, S_size, S_rowSpan, S_xlinkHref,
     S_style}

properties ==
    [name \in RegisteredNames |->
        CASE name = S_disabled ->
               PropertyInfo(S_disabled, "", S_disabled,
                            {"mustUseAttribute", "hasBooleanValue"}, FALSE)
          [] name = S_checked ->
               PropertyInfo(S_checked, "", S_checked, {"hasBooleanValue"}, FALSE)
          [] name = S_value ->
               PropertyInfo(S_value, "", S_value, {"hasSideEffects"}, FALSE)
          [] name = S_download ->
               PropertyInfo(S_download, "", S_download,
                            {"mustUseAttribute", "hasOverloadedBooleanValue"}, FALSE)
          [] name = S_size ->
               PropertyInfo(S_size, "", S_size,
                            {"mustUseAttribute", "hasNumericValue",
                             "hasPositiveNumericValue"}, FALSE)
          [] name = S_rowSpan ->
               PropertyInfo(S_rowspan, "", S_rowSpan,
                            {"mustUseAttribute", "hasNumericValue"}, FALSE)
          [] name = S_xlinkHref ->
               PropertyInfo(S_xlink_href, XLINK_NS, S_xlinkHref,
                            {"mustUseAttribute"}, FALSE)
          [] name = S_style ->
               PropertyInfo(S_style, "", S_style, {}, TRUE)]

\* DOMProperty.properties.hasOwnProperty(name)
HasPropertyInfo(name) == name \in DOMAIN properties

\* DOMProperty.isCustomAttribute(name): the name holds the separator of the
\* custom (data-style) names.
isCustomAttribute(name) == \E i \in 1..Len(name) : name[i] = "-"

\* The properties the operations read and assign on the node.
PropertyNames ==
    {properties[n].propertyName : n \in {x \in DOMAIN properties :
        ~properties[x].mustUseAttribute /\ ~properties[x].mutationMethod}}

\* DOMProperty.getDefaultValueForProperty(nodeName, prop): what a fresh element
\* of that tag holds in the property.
getDefaultValueForProperty(tag, prop) ==
    CASE prop = S_checked /\ tag = "INPUT" -> Bool(FALSE)
      [] prop = S_value /\ tag = "INPUT" -> Str(<<>>)
      [] prop = S_value /\ tag = "LI" -> Num(0)
      [] OTHER -> Undefined

\* DOMProperty.ATTRIBUTE_NAME_START_CHAR and ATTRIBUTE_NAME_CHAR (their ASCII part).
Letters ==
    {"a", "b", "c", "d", "e", "f", "g", "h", "i", "j", "k", "l", "m", "n", "o", "p",
     "q", "r", "s", "t", "u", "v", "w", "x", "y", "z",
     "A", "B", "C", "D", "E", "F", "G", "H", "I", "J", "K", "L", "M", "N", "O", "P",
     "Q", "R", "S", "T", "U", "V", "W", "X", "Y", "Z"}

ATTRIBUTE_NAME_START_CHAR == Letters \cup {":", "_"}

ATTRIBUTE_NAME_CHAR ==
    ATTRIBUTE_NAME_START_CHAR \cup {"-", "."} \cup {Digits[i] : i \in 1..10}

\* escapeTextContentForBrowser, one character at a time.
EscapeChar(c) ==
    CASE c = "&" -> <<"&", "a", "m", "p", ";">>
      [] c = "<" -> <<"&", "l", "t", ";">>
      [] c = ">" -> <<"&", "g", "t", ";">>
      [] c = "\"" -> <<"&", "q", "u", "o", "t", ";">>
      [] c = "'" -> <<"&", "#", "x", "2", "7", ";">>
      [] OTHER -> <<c>>

RECURSIVE escapeTextContentForBrowser(_)
escapeTextContentForBrowser(text) ==
    IF Len(text) = 0 THEN <<>>
    ELSE EscapeChar(Head(text)) \o escapeTextContentForBrowser(Tail(text))

quoteAttributeValueForBrowser(value) ==
    <<"\"">> \o escapeTextContentForBrowser(ToString(value)) \o <<"\"">>

---------------------------------------------------------------------------
(* The inputs of the calls.                                                *)

UnregisteredNames == {S_data_x, S_1bad, S_1_b, S_hasOwnProperty, S___proto__}

Names == RegisteredNames \cup UnregisteredNames

\* A run reconciles the names of one group on a node of one tag.
Scopes ==
    {[nodeName |-> "LI", names |-> UnregisteredNames],
     [nodeName |-> "INPUT", names |-> {S_disabled, S_download}],
     [nodeName |-> "INPUT", names |-> {S_size, S_rowSpan}],
     [nodeName |-> "LI", names |-> {S_xlinkHref, S_style}],
     [nodeName |-> "INPUT", names |-> {S_checked, S_value}],
     [nodeName |-> "LI", names |-> {S_value}]}

Values ==
    {Undefined, Null, NaN, Bool(TRUE), Bool(FALSE)}
    \cup {Num(i) : i \in 0..MaxNum}
    \cup {Str(<<>>), Str(<<"0">>), Str(S_custom), Str(S_quot)}

---------------------------------------------------------------------------
(* One call in progress: the node and the caches as the call has changed   *)
(* them so far, the node operations it has performed, and how it ended.    *)

Begin ==
    [props |-> props, attrs |-> attrs,
     validated |-> validatedAttributeNameCache,
     illegal |-> illegalAttributeNameCache,
     warnings |-> warnings,
     log |-> <<>>, safe |-> "none", threw |-> FALSE, ret |-> Undefined]

NodeOp(kind, ns, name, v) == [kind |-> kind, ns |-> ns, name |-> name, v |-> v]

Return(m, v) == [m EXCEPT !.ret = v]

\* node.setAttribute(name, value)
setAttribute(m, name, value) ==
    [m EXCEPT !.attrs = {a \in @ : a.name # name}
                          \cup {[ns |-> "", name |-> name, value |-> value]},
              !.log = Append(@, NodeOp("setAttribute", "", name, Str(value)))]

\* node.setAttributeNS(namespace, name, value)
setAttributeNS(m, ns, name, value) ==
    [m EXCEPT !.attrs = {a \in @ : a.name # name}
                          \cup {[ns |-> ns, name |-> name, value |-> value]},
              !.log = Append(@, NodeOp("setAttributeNS", ns, name, Str(value)))]

\* node.removeAttribute(name)
removeAttribute(m, name) ==
    [m EXCEPT !.attrs = {a \in @ : a.name # name},
              !.log = Append(@, NodeOp("removeAttribute", "", name, Undefined))]

\* node[propName] = value
AssignProperty(m, propName, value) ==
    [m EXCEPT !.props[propName] = value,
              !.log = Append(@, NodeOp("assign", "", propName, value))]

\* mutationMethod(node, value): the registry's own writer; what it does to the
\* node is its business, the call and its argument are recorded.
mutationMethod(m, name, value) ==
    [m EXCEPT !.log = Append(@, NodeOp("mutationMethod", "", name, value))]

---------------------------------------------------------------------------
(* The name validator and its caches (lines 21-43).                        *)

\* VALID_ATTRIBUTE_NAME_REGEX.test(attributeName)
VALID_ATTRIBUTE_NAME_REGEX(attributeName) ==
    /\ Len(attributeName) >= 1
    /\ attributeName[1] \in ATTRIBUTE_NAME_START_CHAR
    /\ \A i \in 2..Len(attributeName) : attributeName[i] \in ATTRIBUTE_NAME_CHAR

\* cache[key] = true on an object literal: the key becomes an own property,
\* except __proto__, whose assignment of a primitive changes nothing.
PutOwn(cache, key) == IF key = S___proto__ THEN cache ELSE cache \cup {key}

\* cache.hasOwnProperty resolves on the object itself first: once the cache has
\* an own key "hasOwnProperty" (holding true), the call is a call of true.
HasOwnPropertyIsCallable(cache) == S_hasOwnProperty \notin cache

Throw(m) == [m EXCEPT !.threw = TRUE]

\* Mutant: line 33 runs before the pattern is tested, so a rejected name is
\* recorded as valid too.
isAttributeNameSafe_marksFirst(m, attributeName) ==
    IF ~HasOwnPropertyIsCallable(m.validated)
    THEN Throw([m EXCEPT !.safe = "threw"])
    ELSE IF attributeName \in m.validated
    THEN [m EXCEPT !.safe = "true"]
    ELSE IF ~HasOwnPropertyIsCallable(m.illegal)
    THEN Throw([m EXCEPT !.safe = "threw"])
    ELSE IF attributeName \in m.illegal
    THEN [m EXCEPT !.safe = "false"]
    ELSE IF VALID_ATTRIBUTE_NAME_REGEX(attributeName)
    THEN [m EXCEPT !.validated = PutOwn(@, attributeName), !.safe = "true"]
    ELSE [m EXCEPT !.validated = PutOwn(@, attributeName),
                   !.illegal = PutOwn(@, attributeName),
                   !.warnings = Append(@, attributeName),
                   !.safe = "false"]

isAttributeNameSafe(m, attributeName) ==
    IF ~HasOwnPropertyIsCallable(m.validated)
    THEN Throw([m EXCEPT !.safe = "threw"])
    ELSE IF attributeName \in m.validated
    THEN [m EXCEPT !.safe = "true"]
    ELSE IF ~HasOwnPropertyIsCallable(m.illegal)
    THEN Throw([m EXCEPT !.safe = "threw"])
    ELSE IF attributeName \in m.illegal
    THEN [m EXCEPT !.safe = "false"]
    ELSE IF VALID_ATTRIBUTE_NAME_REGEX(attributeName)
    THEN [m EXCEPT !.validated = PutOwn(@, attributeName), !.safe = "true"]
    ELSE [m EXCEPT !.illegal = PutOwn(@, attributeName),
                   !.warnings = Append(@, attributeName),
                   !.safe = "false"]

shouldIgnoreValue(propertyInfo, value) ==
    \/ LooseEqualsNull(value)
    \/ propertyInfo.hasBooleanValue /\ Falsy(value)
    \/ propertyInfo.hasNumericValue /\ isNaN(value)
    \/ propertyInfo.hasPositiveNumericValue /\ LessThanOne(value)
    \/ propertyInfo.hasOverloadedBooleanValue /\ value = Bool(FALSE)

---------------------------------------------------------------------------
(* The operations (lines 56-267).  Each takes the call in progress and     *)
(* gives it back with what the operation did.                              *)

\* Mutant: the boolean test of line 99 comes before the should-ignore test.
createMarkupForProperty_booleanFirst(m, name, value) ==
    IF HasPropertyInfo(name)
    THEN LET propertyInfo == properties[name]
             attributeName == propertyInfo.attributeName
         IN IF \/ propertyInfo.hasBooleanValue
               \/ propertyInfo.hasOverloadedBooleanValue /\ value = Bool(TRUE)
            THEN Return(m, Str(attributeName \o <<"=", "\"", "\"">>))
            ELSE IF shouldIgnoreValue(propertyInfo, value)
            THEN Return(m, Str(<<>>))
            ELSE Return(m, Str(attributeName \o <<"=">>
                                 \o quoteAttributeValueForBrowser(value)))
    ELSE IF isCustomAttribute(name)
    THEN IF LooseEqualsNull(value)
         THEN Return(m, Str(<<>>))
         ELSE Return(m, Str(name \o <<"=">> \o quoteAttributeValueForBrowser(value)))
    ELSE Return(m, Null)

createMarkupForProperty(m, name, value) ==
    IF HasPropertyInfo(name)
    THEN LET propertyInfo == properties[name]
             attributeName == propertyInfo.attributeName
         IN IF shouldIgnoreValue(propertyInfo, value)
            THEN Return(m, Str(<<>>))
            ELSE IF \/ propertyInfo.hasBooleanValue
                    \/ propertyInfo.hasOverloadedBooleanValue /\ value = Bool(TRUE)
            THEN Return(m, Str(attributeName \o <<"=", "\"", "\"">>))
            ELSE Return(m, Str(attributeName \o <<"=">>
                                 \o quoteAttributeValueForBrowser(value)))
    ELSE IF isCustomAttribute(name)
    THEN IF LooseEqualsNull(value)
         THEN Return(m, Str(<<>>))
         ELSE Return(m, Str(name \o <<"=">> \o quoteAttributeValueForBrowser(value)))
    ELSE Return(m, Null)

createMarkupForCustomAttribute(m, name, value) ==
    LET m1 == isAttributeNameSafe(m, name)
    IN IF m1.threw THEN m1
       ELSE IF m1.safe # "true" \/ LooseEqualsNull(value)
       THEN Return(m1, Str(<<>>))
       ELSE Return(m1, Str(name \o <<"=">> \o quoteAttributeValueForBrowser(value)))

createMarkupForSVGAttribute(m, name, value) ==
    LET m1 == isAttributeNameSafe(m, name)
    IN IF m1.threw THEN m1
       ELSE IF m1.safe # "true" \/ LooseEqualsNull(value)
       THEN Return(m1, Str(<<>>))
       ELSE IF HasPropertyInfo(name)
       THEN Return(m1, Str(properties[name].attributeName \o <<"=">>
                             \o quoteAttributeValueForBrowser(value)))
       ELSE Return(m1, Str(name \o <<"=">> \o quoteAttributeValueForBrowser(value)))

\* Mutant: the property is cleared to the empty string, not to the tag's default.
DeleteViaProperty_emptyString(m, propertyInfo) ==
    LET propName == propertyInfo.propertyName
        defaultValue == Str(<<>>)
    IN IF \/ ~propertyInfo.hasSideEffects
          \/ Str(ToString(m.props[propName])) # defaultValue
       THEN AssignProperty(m, propName, defaultValue)
       ELSE m

\* lines 241-251: the direct-property branch of deleteValueForProperty.  The
\* comparison is !== between the string '' + node[propName] and the default as
\* the registry gave it.
DeleteViaProperty(m, propertyInfo) ==
    LET propName == propertyInfo.propertyName
        defaultValue == getDefaultValueForProperty(nodeName, propName)
    IN IF \/ ~propertyInfo.hasSideEffects
          \/ Str(ToString(m.props[propName])) # defaultValue
       THEN AssignProperty(m, propName, defaultValue)
       ELSE m

\* Mutant: a delete hands null to the mutationMethod.
deleteValueForProperty_passesNull(m, name) ==
    IF HasPropertyInfo(name)
    THEN LET propertyInfo == properties[name]
         IN IF propertyInfo.mutationMethod
            THEN mutationMethod(m, name, Null)
            ELSE IF propertyInfo.mustUseAttribute
            THEN removeAttribute(m, propertyInfo.attributeName)
            ELSE DeleteViaProperty(m, propertyInfo)
    ELSE IF isCustomAttribute(name)
    THEN removeAttribute(m, name)
    ELSE m

deleteValueForProperty(m, name) ==
    IF HasPropertyInfo(name)
    THEN LET propertyInfo == properties[name]
         IN IF propertyInfo.mutationMethod
            THEN mutationMethod(m, name, Undefined)
            ELSE IF propertyInfo.mustUseAttribute
            THEN removeAttribute(m, propertyInfo.attributeName)
            ELSE DeleteViaProperty(m, propertyInfo)
    ELSE IF isCustomAttribute(name)
    THEN removeAttribute(m, name)
    ELSE m

\* Mutant: the name is written without being validated.
setValueForAttribute_unvalidated(m, name, value) ==
    IF LooseEqualsNull(value)
    THEN removeAttribute(m, name)
    ELSE setAttribute(m, name, ToString(value))

setValueForAttribute(m, name, value) ==
    LET m1 == isAttributeNameSafe(m, name)
    IN IF m1.threw THEN m1
       ELSE IF m1.safe # "true" THEN m1
       ELSE IF LooseEqualsNull(value)
       THEN removeAttribute(m1, name)
       ELSE setAttribute(m1, name, ToString(value))

\* Mutant: the namespace of the descriptor is not looked at.
SetViaAttribute_plain(m, propertyInfo, value) ==
    LET attributeName == propertyInfo.attributeName
    IN IF \/ propertyInfo.hasBooleanValue
          \/ propertyInfo.hasOverloadedBooleanValue /\ value = Bool(TRUE)
       THEN setAttribute(m, attributeName, <<>>)
       ELSE setAttribute(m, attributeName, ToString(value))

\* lines 171-183: the attribute branch of setValueForProperty.
SetViaAttribute(m, propertyInfo, value) ==
    LET attributeName == propertyInfo.attributeName
        namespace == propertyInfo.attributeNamespace
    IN IF namespace # ""
       THEN setAttributeNS(m, namespace, attributeName, ToString(value))
       ELSE IF \/ propertyInfo.hasBooleanValue
               \/ propertyInfo.hasOverloadedBooleanValue /\ value = Bool(TRUE)
       THEN setAttribute(m, attributeName, <<>>)
       ELSE setAttribute(m, attributeName, ToString(value))

\* lines 184-194: the direct-property branch of setValueForProperty.
SetViaProperty(m, propertyInfo, value) ==
    LET propName == propertyInfo.propertyName
    IN IF \/ ~propertyInfo.hasSideEffects
          \/ ToString(m.props[propName]) # ToString(value)
       THEN AssignProperty(m, propName, value)
       ELSE m

\* Mutant: an ignorable value is written like any other.
setValueForProperty_writesIgnorable(m, name, value) ==
    IF HasPropertyInfo(name)
    THEN LET propertyInfo == properties[name]
         IN IF propertyInfo.mutationMethod
            THEN mutationMethod(m, name, value)
            ELSE IF propertyInfo.mustUseAttribute
            THEN SetViaAttribute(m, propertyInfo, value)
            ELSE SetViaProperty(m, propertyInfo, value)
    ELSE IF isCustomAttribute(name)
    THEN setValueForAttribute(m, name, value)
    ELSE m

setValueForProperty(m, name, value) ==
    IF HasPropertyInfo(name)
    THEN LET propertyInfo == properties[name]
         IN IF propertyInfo.mutationMethod
            THEN mutationMethod(m, name, value)
            ELSE IF shouldIgnoreValue(propertyInfo, value)
            THEN deleteValueForProperty(m, name)
            ELSE IF propertyInfo.mustUseAttribute
            THEN SetViaAttribute(m, propertyInfo, value)
            ELSE SetViaProperty(m, propertyInfo, value)
    ELSE IF isCustomAttribute(name)
    THEN setValueForAttribute(m, name, value)
    ELSE m

setValueForSVGAttribute(m, name, value) ==
    IF HasPropertyInfo(name)
    THEN setValueForProperty(m, name, value)
    ELSE setValueForAttribute(m, name, value)

deleteValueForSVGAttribute(m, name) ==
    IF HasPropertyInfo(name)
    THEN deleteValueForProperty(m, name)
    ELSE removeAttribute(m, name)

---------------------------------------------------------------------------
(* The state machine: one action per exposed operation.                    *)

NoCall ==
    [op |-> "none", name |-> <<>>, value |-> Undefined, ret |-> Undefined,
     threw |-> FALSE, safe |-> "none", log |-> <<>>]

Init ==
    /\ scope \in Scopes
    /\ nodeName = scope.nodeName
    /\ props = [p \in PropertyNames |-> Undefined]
    /\ attrs = {}
    /\ validatedAttributeNameCache = {}
    /\ illegalAttributeNameCache = {}
    /\ warnings = <<>>
    /\ firstVerdict = [n \in Names |-> "none"]
    /\ last = NoCall
    /\ ncalls = 0

\* The call op(name, value) has run to m: its effects become the state.
Finish(op, name, value, m) ==
    /\ ncalls < MaxCalls
    /\ ncalls' = ncalls + 1
    /\ props' = m.props
    /\ attrs' = m.attrs
    /\ validatedAttributeNameCache' = m.validated
    /\ illegalAttributeNameCache' = m.illegal
    /\ warnings' = m.warnings
    /\ firstVerdict' = IF m.safe # "none" /\ firstVerdict[name] = "none"
                       THEN [firstVerdict EXCEPT ![name] = m.safe]
                       ELSE firstVerdict
    /\ last' = [op |-> op, name |-> name, value |-> value, ret |-> m.ret,
                threw |-> m.threw, safe |-> m.safe, log |-> m.log]
    /\ UNCHANGED <<nodeName, scope>>

CreateMarkupForProperty ==
    \E name \in scope.names, value \in Values :
        Finish("createMarkupForProperty", name, value,
               createMarkupForProperty(Begin, name, value))

CreateMarkupForCustomAttribute ==
    \E name \in scope.names, value \in Values :
        Finish("createMarkupForCustomAttribute", name, value,
               createMarkupForCustomAttribute(Begin, name, value))

CreateMarkupForSVGAttribute ==
    \E name \in scope.names, value \in Values :
        Finish("createMarkupForSVGAttribute", name, value,
               createMarkupForSVGAttribute(Begin, name, value))

SetValueForProperty ==
    \E name \in scope.names, value \in Values :
        Finish("setValueForProperty", name, value,
               setValueForProperty(Begin, name, value))

SetValueForAttribute ==
    \E name \in scope.names, value \in Values :
        Finish("setValueForAttribute", name, value,
               setValueForAttribute(Begin, name, value))

SetValueForSVGAttribute ==
    \E name \in scope.names, value \in Values :
        Finish("setValueForSVGAttribute", name, value,
               setValueForSVGAttribute(Begin, name, value))

DeleteValueForProperty ==
    \E name \in scope.names :
        Finish("deleteValueForProperty", name, Undefined,
               deleteValueForProperty(Begin, name))

DeleteValueForSVGAttribute ==
    \E name \in scope.names :
        Finish("deleteValueForSVGAttribute", name, Undefined,
               deleteValueForSVGAttribute(Begin, name))

Next ==
    \/ CreateMarkupForProperty
    \/ CreateMarkupForCustomAttribute
    \/ CreateMarkupForSVGAttribute
    \/ SetValueForProperty
    \/ SetValueForAttribute
    \/ SetValueForSVGAttribute
    \/ DeleteValueForProperty
    \/ DeleteValueForSVGAttribute

Spec == Init /\ [][Next]_vars

---------------------------------------------------------------------------
(* Vocabulary of the properties.                                           *)

\* The step is a call (every step of Next is one).
IsCall == ncalls' = ncalls + 1

SetOps == {"setValueForProperty", "setValueForAttribute", "setValueForSVGAttribute"}

DeleteOps == {"deleteValueForProperty", "deleteValueForSVGAttribute"}

\* The node operations of kind k in a call's log.
OpsOfKind(log, k) == {i \in 1..Len(log) : log[i].kind = k}

\* The descriptor takes the direct-property path of set and delete.
DirectProperty(name) ==
    /\ HasPropertyInfo(name)
    /\ ~properties[name].mutationMethod
    /\ ~properties[name].mustUseAttribute

HasMutationMethod(name) == HasPropertyInfo(name) /\ properties[name].mutationMethod

Occurrences(seq, x) == Cardinality({i \in 1..Len(seq) : seq[i] = x})

---------------------------------------------------------------------------
(* C1: for a side-effecting descriptor on the direct-property path, two    *)
(* consecutive calls setValueForProperty(node, name, value) with the same  *)
(* name and value assign node[propertyName] at most once in total, for     *)
(* every value.                                                            *)

C1_NoRedundantWrite ==
    [][(/\ IsCall
        /\ last.op = "setValueForProperty"
        /\ last'.op = "setValueForProperty"
        /\ last'.name = last.name
        /\ last'.value = last.value
        /\ DirectProperty(last.name)
        /\ properties[last.name].hasSideEffects)
       => Cardinality(OpsOfKind(last.log, "assign"))
            + Cardinality(OpsOfKind(last'.log, "assign")) <= 1]_vars

---------------------------------------------------------------------------
(* C2: every run of isAttributeNameSafe(s) ends as the first run with s    *)
(* did, and the 'Invalid attribute name' diagnostic is reported at most    *)
(* once per name.                                                          *)

C2_StableVerdict ==
    /\ last.safe # "none" => last.safe = firstVerdict[last.name]
    /\ \A n \in Names : Occurrences(warnings, n) <= 1

---------------------------------------------------------------------------
(* C3: no name is in both caches, neither cache ever loses a name, and a   *)
(* name of one cache never enters the other.                               *)

C3_CachesDisjointAppendOnly ==
    /\ [](validatedAttributeNameCache \cap illegalAttributeNameCache = {})
    /\ [][/\ validatedAttributeNameCache \subseteq validatedAttributeNameCache'
          /\ illegalAttributeNameCache \subseteq illegalAttributeNameCache'
          /\ validatedAttributeNameCache \cap illegalAttributeNameCache' = {}
          /\ illegalAttributeNameCache \cap validatedAttributeNameCache' = {}]_vars

\* Both caches hold a name, and the latest call ended with its name rejected.
C3_Witness ==
    /\ validatedAttributeNameCache # {}
    /\ last.name \in illegalAttributeNameCache
    /\ last.safe = "false"
    /\ warnings = <<last.name>>
    /\ ncalls = MaxCalls

---------------------------------------------------------------------------
(* C4: for a name that fails the name grammar and has no descriptor.       *)

InvalidUnregistered(name) ==
    ~VALID_ATTRIBUTE_NAME_REGEX(name) /\ ~HasPropertyInfo(name)

\* C4 as claimed: every set and every delete operation performs no node
\* operation at all and does not throw.
C4_InvalidNameIsNoOp ==
    (last.op \in SetOps \cup DeleteOps /\ InvalidUnregistered(last.name))
        => last.log = <<>> /\ ~last.threw

\* C4 as amended: the set operations perform no node operation;
\* deleteValueForSVGAttribute performs removeAttribute(name) and nothing else,
\* deleteValueForProperty does so exactly when the name is a custom attribute;
\* the delete operations do not throw.
C4_InvalidNameNeverWritten ==
    InvalidUnregistered(last.name) =>
        /\ last.op \in SetOps => last.log = <<>>
        /\ last.op = "deleteValueForSVGAttribute" =>
              /\ last.log = <<NodeOp("removeAttribute", "", last.name, Undefined)>>
              /\ ~last.threw
        /\ last.op = "deleteValueForProperty" =>
              /\ last.log = IF isCustomAttribute(last.name)
                            THEN <<NodeOp("removeAttribute", "", last.name, Undefined)>>
                            ELSE <<>>
              /\ ~last.threw

\* A set of a string value, as the second call of the run, for an invalid name.
C4_Witness ==
    /\ last.op = "setValueForSVGAttribute"
    /\ last.name = S_1_b
    /\ last.value = Str(S_custom)
    /\ last.safe = "false"
    /\ warnings = <<S_1_b>>
    /\ ncalls = MaxCalls

---------------------------------------------------------------------------
(* C5: setValueForProperty for a descriptor with an attributeNamespace.    *)

Namespaced(name) == HasPropertyInfo(name) /\ properties[name].attributeNamespace # ""

\* C5 as claimed: every such call invokes setAttributeNS with the namespace and
\* the descriptor's attributeName, and never setAttribute.
C5_NamespaceAlwaysDispatched ==
    (last.op = "setValueForProperty" /\ Namespaced(last.name)) =>
        /\ \E i \in OpsOfKind(last.log, "setAttributeNS") :
              /\ last.log[i].ns = properties[last.name].attributeNamespace
              /\ last.log[i].name = properties[last.name].attributeName
        /\ OpsOfKind(last.log, "setAttribute") = {}

\* C5 as amended: setAttribute is never invoked; setAttributeNS(namespace,
\* attributeName, '' + value) is the one node operation when the descriptor is
\* attribute-backed without mutationMethod and the value is not ignorable.
C5_NamespaceDispatch ==
    (last.op = "setValueForProperty" /\ Namespaced(last.name)) =>
        /\ OpsOfKind(last.log, "setAttribute") = {}
        /\ (/\ properties[last.name].mustUseAttribute
            /\ ~properties[last.name].mutationMethod
            /\ ~shouldIgnoreValue(properties[last.name], last.value))
           => last.log = <<NodeOp("setAttributeNS",
                                  properties[last.name].attributeNamespace,
                                  properties[last.name].attributeName,
                                  Str(ToString(last.value)))>>

C5_Witness ==
    /\ last.op = "setValueForProperty"
    /\ last.name = S_xlinkHref
    /\ last.value = Num(1)
    /\ [ns |-> XLINK_NS, name |-> S_xlink_href, value |-> <<"1">>] \in attrs

---------------------------------------------------------------------------
(* C6: what mutationMethod receives as its second argument.                *)

\* The second argument deleteValueForProperty passes for this name.
DeleteArgument(name) == deleteValueForProperty(Begin, name).log[1].v

\* C6 as claimed: the argument of a set differs from the argument of a delete,
\* whatever value is set.
C6_SentinelDistinct ==
    (last.op = "setValueForProperty" /\ HasMutationMethod(last.name)) =>
        /\ Len(last.log) = 1
        /\ last.log[1].kind = "mutationMethod"
        /\ last.log[1].v # DeleteArgument(last.name)

\* C6 as amended: a set passes its value on unchanged, a delete passes
\* undefined, and the two differ exactly when the value set is not undefined.
C6_SentinelIsUndefined ==
    /\ (last.op = "setValueForProperty" /\ HasMutationMethod(last.name)) =>
          /\ last.log = <<NodeOp("mutationMethod", "", last.name, last.value)>>
          /\ (last.log[1].v = DeleteArgument(last.name)) <=> (last.value = Undefined)
    /\ (last.op = "deleteValueForProperty" /\ HasMutationMethod(last.name)) =>
          last.log = <<NodeOp("mutationMethod", "", last.name, Undefined)>>

\* A set of null through the mutationMethod: told apart from a delete.
C6_Witness ==
    /\ last.op = "setValueForProperty"
    /\ last.name = S_style
    /\ last.value = Null
    /\ last.log = <<NodeOp("mutationMethod", "", S_style, Null)>>

---------------------------------------------------------------------------
(* C7: deleteValueForProperty for a descriptor on the direct-property path *)
(* without side effects leaves node[propertyName] at the default of the    *)
(* node's tag, whatever it held, and changes nothing else on the node.     *)

C7_DeleteRestoresDefault ==
    [][(/\ IsCall
        /\ last'.op = "deleteValueForProperty"
        /\ DirectProperty(last'.name)
        /\ ~properties[last'.name].hasSideEffects)
       => LET propName == properties[last'.name].propertyName
          IN /\ props'[propName] = getDefaultValueForProperty(nodeName, propName)
             /\ \A p \in PropertyNames \ {propName} : props'[p] = props[p]
             /\ attrs' = attrs
             /\ OpsOfKind(last'.log, "assign") = 1..Len(last'.log)]_vars

\* The property held true and the delete brought it back to the default false.
C7_Witness ==
    /\ last.op = "deleteValueForProperty"
    /\ last.name = S_checked
    /\ nodeName = "INPUT"
    /\ props[S_checked] = Bool(FALSE)
    /\ ncalls = MaxCalls

---------------------------------------------------------------------------
(* C8: createMarkupForProperty for a name with a descriptor.               *)

PresenceOnly(attributeName) == Str(attributeName \o <<"=", "\"", "\"">>)

Quoted(attributeName, text) ==
    Str(attributeName \o <<"=", "\"">> \o text \o <<"\"">>)

BooleanMarkup(propertyInfo, value) ==
    \/ propertyInfo.hasBooleanValue
    \/ propertyInfo.hasOverloadedBooleanValue /\ value = Bool(TRUE)

\* C8 as claimed: the result is "" exactly when the value is ignorable;
\* otherwise it is attributeName="" exactly when the descriptor is boolean, or
\* overloaded-boolean with the value true; otherwise it is attributeName= and
\* the quoted value.
C8_PresenceOnlyExactlyWhenBoolean ==
    (last.op = "createMarkupForProperty" /\ HasPropertyInfo(last.name)) =>
        LET propertyInfo == properties[last.name]
            value == last.value
        IN /\ (last.ret = Str(<<>>)) <=> shouldIgnoreValue(propertyInfo, value)
           /\ ~shouldIgnoreValue(propertyInfo, value) =>
                 /\ (last.ret = PresenceOnly(propertyInfo.attributeName))
                       <=> BooleanMarkup(propertyInfo, value)
                 /\ ~BooleanMarkup(propertyInfo, value) =>
                       last.ret = Str(propertyInfo.attributeName \o <<"=">>
                                        \o quoteAttributeValueForBrowser(value))

\* C8 as amended: the result is "" exactly when the value is ignorable;
\* otherwise it is attributeName="" when the descriptor is boolean, or
\* overloaded-boolean with the value true, and attributeName= and the quoted
\* value when it is not, which is attributeName="" too when '' + value is the
\* empty string and in no other case.  A boolean descriptor gives disabled=""
\* for true and "" for false; an overloaded-boolean one gives download="" for
\* true, download="custom" for "custom" and "" for false.
C8_MarkupForProperty ==
    (last.op = "createMarkupForProperty" /\ HasPropertyInfo(last.name)) =>
        LET propertyInfo == properties[last.name]
            value == last.value
        IN /\ (last.ret = Str(<<>>)) <=> shouldIgnoreValue(propertyInfo, value)
           /\ ~shouldIgnoreValue(propertyInfo, value) =>
                 /\ BooleanMarkup(propertyInfo, value) =>
                       last.ret = PresenceOnly(propertyInfo.attributeName)
                 /\ ~BooleanMarkup(propertyInfo, value) =>
                       /\ last.ret = Str(propertyInfo.attributeName \o <<"=">>
                                           \o quoteAttributeValueForBrowser(value))
                       /\ (last.ret = PresenceOnly(propertyInfo.attributeName))
                             <=> (ToString(value) = <<>>)
           /\ (last.name = S_disabled /\ value = Bool(TRUE)) =>
                 last.ret = PresenceOnly(S_disabled)
           /\ (last.name = S_disabled /\ value = Bool(FALSE)) => last.ret = Str(<<>>)
           /\ (last.name = S_download /\ value = Bool(TRUE)) =>
                 last.ret = PresenceOnly(S_download)
           /\ (last.name = S_download /\ value = Str(S_custom)) =>
                 last.ret = Quoted(S_download, S_custom)
           /\ (last.name = S_download /\ value = Bool(FALSE)) => last.ret = Str(<<>>)

C8_Witness ==
    /\ last.op = "createMarkupForProperty"
    /\ last.name = S_download
    /\ last.value = Str(S_custom)
    /\ last.ret = Quoted(S_download, S_custom)

---------------------------------------------------------------------------
(* C9: for a descriptor without mutationMethod and an ignorable value,     *)
(* setValueForProperty(node, name, value) performs the node operations of  *)
(* deleteValueForProperty(node, name) and leaves the same state.           *)

C9_IgnorableSetIsDelete ==
    [][(/\ IsCall
        /\ last'.op = "setValueForProperty"
        /\ HasPropertyInfo(last'.name)
        /\ ~properties[last'.name].mutationMethod
        /\ shouldIgnoreValue(properties[last'.name], last'.value))
       => LET d == deleteValueForProperty(Begin, last'.name)
          IN /\ last'.log = d.log
             /\ props' = d.props
             /\ attrs' = d.attrs
             /\ validatedAttributeNameCache' = d.validated
             /\ illegalAttributeNameCache' = d.illegal
             /\ warnings' = d.warnings
             /\ last'.threw = d.threw]_vars

\* An ignorable set of a boolean attribute that removed the attribute set before.
C9_Witness ==
    /\ last.op = "setValueForProperty"
    /\ last.name = S_disabled
    /\ last.value = Bool(FALSE)
    /\ last.log = <<NodeOp("removeAttribute", "", S_disabled, Undefined)>>
    /\ attrs = {}
    /\ ncalls = MaxCalls

---------------------------------------------------------------------------
(* C10: on the direct-property path of deleteValueForProperty the default  *)
(* is assigned if and only if hasSideEffects is false or the stringified   *)
(* current value differs from the stringified default.                     *)

C10_DeleteComparesStrings ==
    [][(/\ IsCall
        /\ last'.op = "deleteValueForProperty"
        /\ DirectProperty(last'.name))
       => LET propertyInfo == properties[last'.name]
              propName == propertyInfo.propertyName
              defaultValue == getDefaultValueForProperty(nodeName, propName)
          IN (last'.log = <<NodeOp("assign", "", propName, defaultValue)>>)
                <=> \/ ~propertyInfo.hasSideEffects
                    \/ ToString(props[propName]) # ToString(defaultValue)]_vars

====
